---- MODULE Spec2Model ----
(***************************************************************************)
(* Model of tools/icl_viewer.py: the group-directory parser                *)
(* (parse_grp_icon_dir), the icon image decoder (icon_resource_to_image),  *)
(* the group assembler (load_icons_from_pe) and the viewer window's file   *)
(* and card handlers (ICLViewer).                                          *)
(*                                                                         *)
(* Byte buffers are sequences of 0..255.  Python offsets are 0-based, so   *)
(* the byte at offset k of buffer d is d[k+1].                             *)
(***************************************************************************)
EXTENDS Integers, Sequences, FiniteSets, TLC

VARIABLES
    grp_data,          \* parse_grp_icon_dir: the argument `data`
    parse_pc,          \* "call" before the call, "returned" after it
    parse_out,         \* what the call produced
    ico_blob,          \* icon_resource_to_image: the argument, an RT_ICON blob
    dec_pc,            \* "call" before the call, "returned" after it
    dec_out,           \* what the call produced
    pe,                \* load_icons_from_pe: the resource leaves of the file, in tree order
    load_pc,           \* "collect" (first pass), "assemble" (second pass), "done", "raised"
    res_i,             \* index in pe of the leaf the current pass visits next
    icon_data_by_id,   \* image id -> blob
    groups,            \* the list being built and returned
    view_groups,       \* ICLViewer._groups
    cards,             \* ICLViewer._cards, each with its place in the grid layout
    selected_card,     \* ICLViewer._selected_card: an index in cards, 0 for None
    file_label,        \* the text of ICLViewer._file_label
    window_title,      \* the window title
    detail_group,      \* the group the detail panel shows, NoGroup before any
    event              \* the handler that ran last, with its argument and message box

vars == <<grp_data, parse_pc, parse_out, ico_blob, dec_pc, dec_out,
          pe, load_pc, res_i, icon_data_by_id, groups,
          view_groups, cards, selected_card, file_label, window_title,
          detail_group, event>>
viewVars == <<view_groups, cards, selected_card, file_label, window_title,
              detail_group, event>>
parseVars == <<grp_data, parse_pc, parse_out>>
decodeVars == <<ico_blob, dec_pc, dec_out>>
loadVars == <<pe, load_pc, res_i, icon_data_by_id, groups>>

(***************************************************************************)
(* Bounds of the model.                                                    *)
(***************************************************************************)
MaxCount == 3          \* largest small declared entry count
MaxEntries == 3        \* most 14-byte entries physically in a buffer
MaxBody == 24          \* most bytes following the 40-byte bitmap header
MaxRes == 3            \* most resource leaves in a file

(***************************************************************************)
(* Little-endian struct packing and unpacking (struct "<B", "<H", "<I").   *)
(***************************************************************************)
Min(a, b) == IF a < b THEN a ELSE b
Max(a, b) == IF a > b THEN a ELSE b
Abs(a) == IF a < 0 THEN -a ELSE a

\* A 32-bit field, and every sum built from one, is kept as a pair
\* [hi, lo] standing for hi * 2^16 + lo with 0 <= lo < 2^16, so that no
\* intermediate value is truncated (Python integers are unbounded).
B16 == 256 * 256
BigNorm(hi, lo) == [hi |-> hi + (lo \div B16), lo |-> lo % B16]
BigOf(n) == BigNorm(0, n)
BigAdd(a, b) == BigNorm(a.hi + b.hi, a.lo + b.lo)
BigMulInt(a, n) == BigNorm(a.hi * n, a.lo * n)
BigLe(a, b) == a.hi < b.hi \/ (a.hi = b.hi /\ a.lo <= b.lo)
BigToInt(a) == a.hi * B16 + a.lo
U32Max == [hi |-> B16 - 1, lo |-> B16 - 1]

U8(d, off) == d[off + 1]
U16(d, off) == d[off + 1] + 256 * d[off + 2]
U32(d, off) == [hi |-> U16(d, off + 2), lo |-> U16(d, off)]
I32(d, off) ==
    IF U16(d, off + 2) >= B16 \div 2
    THEN (U16(d, off + 2) - B16) * B16 + U16(d, off)
    ELSE U16(d, off + 2) * B16 + U16(d, off)

LE16(v) == <<v % 256, (v \div 256) % 256>>
LE32(b) == LE16(b.lo) \o LE16(b.hi % B16)
\* struct.pack("<I", v) raises struct.error unless 0 <= v < 2^32
FitsU32(b) == b.hi >= 0 /\ b.hi < B16

\* struct.unpack_from(fmt, data, offset) raises struct.error unless the
\* buffer holds calcsize(fmt) bytes from offset on.
CanUnpack(d, off, size) == off + size <= Len(d)

(***************************************************************************)
(* parse_grp_icon_dir                                                      *)
(***************************************************************************)
GRP_HEADER_SIZE == 6
GRP_ENTRY_SIZE == 14

\* `width or 256`, `height or 256`
OrDefaultKeepsZero(b) == b
OrDefault256(b) == IF b = 0 THEN 256 ELSE b

\* The dictionary built from one "<BBBBHHIH" record at `offset`.
GrpEntry(d, offset) ==
    [width        |-> OrDefault256(U8(d, offset)),
     height       |-> OrDefault256(U8(d, offset + 1)),
     color_count  |-> U8(d, offset + 2),
     planes       |-> U16(d, offset + 4),
     bit_count    |-> U16(d, offset + 6),
     bytes_in_res |-> U32(d, offset + 8),
     icon_id      |-> U16(d, offset + 12)]

\* `if offset + 14 > len(data): break`, negated
EntryFitsOffByOne(d, offset) == offset + GRP_ENTRY_SIZE <= Len(d) + 1
EntryFits(d, offset) == offset + GRP_ENTRY_SIZE <= Len(d)

\* The for loop over range(count): i iterations done, next record at offset.
RECURSIVE ParseLoop(_, _, _, _, _)
ParseLoop(d, count, i, offset, entries) ==
    IF i >= count \/ ~EntryFits(d, offset)
    THEN [raised |-> FALSE, entries |-> entries]
    ELSE IF ~CanUnpack(d, offset, GRP_ENTRY_SIZE)
    THEN [raised |-> TRUE, entries |-> entries]
    ELSE ParseLoop(d, count, i + 1, offset + GRP_ENTRY_SIZE,
                   Append(entries, GrpEntry(d, offset)))

parse_grp_icon_dir(d) ==
    IF Len(d) < GRP_HEADER_SIZE
    THEN [raised |-> FALSE, entries |-> <<>>]
    ELSE ParseLoop(d, U16(d, 4), 0, GRP_HEADER_SIZE, <<>>)

(***************************************************************************)
(* Group-directory buffers the parser is applied to: a header declaring    *)
(* `count`, then n physical 14-byte records, then the whole cut short by   *)
(* some bytes.  count and n are independent, so buffers are both shorter   *)
(* and longer than 6 + 14*count.                                           *)
(***************************************************************************)
GrpHeader(count) == <<0, 0>> \o LE16(1) \o LE16(count)

GrpRecord(w, h, bits, id) ==
    <<w, h, 0, 0>> \o LE16(1) \o LE16(bits) \o LE32(BigOf(744)) \o LE16(id)

RecordChoices ==
    { GrpRecord(0, 0, 32, 10), GrpRecord(32, 32, 8, 11),
      GrpRecord(255, 1, 4, 300), GrpRecord(16, 0, 1, 10) }

RECURSIVE Flatten(_)
Flatten(ss) == IF ss = <<>> THEN <<>> ELSE Head(ss) \o Flatten(Tail(ss))

Take(s, n) == SubSeq(s, 1, Min(Max(n, 0), Len(s)))

CutChoices == {0, 1, 9, 13}
CountChoices == (0..MaxCount) \cup {65535}

GrpBuffers ==
    UNION { UNION { { Take(GrpHeader(count) \o Flatten(recs), GRP_HEADER_SIZE + 14 * n - cut)
                      : recs \in [1..n -> RecordChoices] }
                    : count \in CountChoices, cut \in CutChoices }
            : n \in 0..MaxEntries }

(***************************************************************************)
(* icon_resource_to_image                                                  *)
(*                                                                         *)
(* A blob is [data, codec]: the bytes, and what the image codec makes of   *)
(* the pixel data it is handed ("fail": Image.open(...).convert raises;    *)
(* "opaque": a raster whose alpha is 255 everywhere; "alpha": a raster     *)
(* with per-pixel alpha).  The codec is a library outside the program.     *)
(*                                                                         *)
(* The result is [kind, width, height, alpha] with kind "image", "none"    *)
(* (the function returned None) or "raise" (an exception left it).         *)
(***************************************************************************)
PNG_SIGNATURE == <<137, 80, 78, 71, 13, 10, 26, 10>>

\* Python's data[a:b] for a sequence (negative indices count from the end,
\* out-of-range indices are clamped).
PyIndex(s, i) == IF i < 0 THEN Max(i + Len(s), 0) ELSE Min(i, Len(s))
PySlice(s, a, b) ==
    IF PyIndex(s, a) >= PyIndex(s, b) THEN <<>>
    ELSE SubSeq(s, PyIndex(s, a) + 1, PyIndex(s, b))

Pixels(w, h) == (0..(w - 1)) \X (0..(h - 1))

NoImage == [kind |-> "none", width |-> 0, height |-> 0, alpha |-> [p \in {} |-> 0]]
Raised == [kind |-> "raise", width |-> 0, height |-> 0, alpha |-> [p \in {} |-> 0]]
MkImage(w, h, a) == [kind |-> "image", width |-> w, height |-> h, alpha |-> a]

\* The alpha channel the codec's colour decode gives pixel (x, y).
ColourAlpha(codec, x, y) ==
    IF codec = "opaque" THEN 255 ELSE (x * 85 + y * 50 + 77) % 256

\* Image.open(io.BytesIO(data)).convert("RGBA") on PNG data: the raster has
\* the dimensions of the PNG's IHDR chunk (big-endian, offsets 16 and 20); a
\* stream the codec rejects makes it raise.
BE16(d, off) == d[off + 1] * 256 + d[off + 2]
PngOpen(blob) ==
    IF blob.codec = "fail" \/ Len(blob.data) < 24 THEN Raised
    ELSE LET w == BE16(blob.data, 18)
             h == BE16(blob.data, 22)
         IN  MkImage(w, h, [p \in Pixels(w, h) |-> ColourAlpha(blob.codec, p[1], p[2])])

\* Image.open(io.BytesIO(bmp_data)).convert("RGBA") on the synthesized BMP:
\* the codec reads the header size first; a 12-byte (core) header carries
\* 16-bit dimensions at offsets 4 and 6, the info headers carry 32-bit
\* dimensions at offsets 4 and 8, the width unsigned; any other size is
\* rejected, and so are a width that is no C int and a raster of more than
\* twice Image.MAX_IMAGE_PIXELS pixels (DecompressionBombError).  A "none"
\* result stands for the exception, which the try block catches.
PIL_CORE_HEADER == 12
PIL_INFO_HEADERS == {40, 52, 56, 64, 108, 124}
PIL_BOMB_PIXELS == 2 * 89478485
TooManyPixels(w, h) == h > 0 /\ w > PIL_BOMB_PIXELS \div h
BmpOpen(codec, dib) ==
    IF codec = "fail" THEN NoImage
    ELSE IF U32(dib, 0) = BigOf(PIL_CORE_HEADER)
    THEN LET w == U16(dib, 4)
             h == U16(dib, 6)
         IN  IF TooManyPixels(w, h) THEN NoImage
             ELSE MkImage(w, h, [p \in Pixels(w, h) |-> ColourAlpha(codec, p[1], p[2])])
    ELSE IF U32(dib, 0).hi = 0 /\ U32(dib, 0).lo \in PIL_INFO_HEADERS /\ I32(dib, 4) >= 0
    THEN LET w == I32(dib, 4)
             h == I32(dib, 8)
         IN  IF TooManyPixels(w, h) THEN NoImage
             ELSE MkImage(w, h, [p \in Pixels(w, h) |-> ColourAlpha(codec, p[1], p[2])])
    ELSE NoImage

\* `bit_idx = 7 - (x % 8)`
MaskBitIdxLsbFirst(x) == x % 8
MaskBitIdx(x) == 7 - (x % 8)

\* `(row[byte_idx] >> bit_idx) & 1`
RECURSIVE Pow2(_)
Pow2(k) == IF k = 0 THEN 1 ELSE 2 * Pow2(k - 1)
BitOf(b, k) == (b \div Pow2(k)) % 2

\* The value px[x, y] of mask_img after the two loops: 255 from Image.new
\* unless the loop body stored 0.
MaskPixel(mask_data, mask_row_size, actual_height, x, y) ==
    LET row_start == (actual_height - 1 - y) * mask_row_size
        row == PySlice(mask_data, row_start, row_start + mask_row_size)
        byte_idx == x \div 8
        bit_idx == MaskBitIdx(x)
    IN  IF byte_idx < Len(row) /\ BitOf(row[byte_idx + 1], bit_idx) = 1
        THEN 0 ELSE 255

\* `bit_count < 32`
DepthBelow32OrEqual(bit_count) == bit_count <= 32
DepthBelow32(bit_count) == bit_count < 32

\* `mask_offset + mask_size <= len(data)`
MaskFitsAlways(mask_offset, mask_size, len) == TRUE
MaskFits(mask_offset, mask_size, len) ==
    BigLe(BigAdd(mask_offset, BigOf(mask_size)), BigOf(len))

\* The body of the try block, given the colour image the codec produced.
ApplyMask(data, img, header_size, bmp_width, bit_count, actual_height, palette_size) ==
    LET xor_row_size == ((bmp_width * bit_count + 31) \div 32) * 4
        xor_size == xor_row_size * actual_height
        mask_row_size == ((bmp_width + 31) \div 32) * 4
        mask_offset == BigAdd(BigAdd(header_size, palette_size), BigOf(xor_size))
        mask_size == mask_row_size * actual_height
    IN  IF DepthBelow32(bit_count) /\ MaskFits(mask_offset, mask_size, Len(data))
        THEN \* Image.new raises ValueError on a negative size
             IF bmp_width < 0 \/ actual_height < 0 THEN NoImage
             ELSE LET mask_data == PySlice(data, BigToInt(mask_offset),
                                           BigToInt(mask_offset) + mask_size)
                  IN  \* putalpha raises ValueError unless the sizes match
                      IF <<img.width, img.height>> # <<bmp_width, actual_height>>
                      THEN NoImage
                      ELSE MkImage(img.width, img.height,
                               [p \in Pixels(bmp_width, actual_height) |->
                                   MaskPixel(mask_data, mask_row_size,
                                             actual_height, p[1], p[2])])
        ELSE img

\* `colors_used`, after the default for palettised depths is applied
ColorsUsed(data) ==
    IF U32(data, 32) = BigOf(0) /\ U16(data, 14) <= 8
    THEN BigOf(Pow2(U16(data, 14))) ELSE U32(data, 32)

\* `patched_dib`: the header with its height field replaced
PatchedDib(data) ==
    PySlice(data, 0, 8) \o LE32(BigOf(Abs(I32(data, 8)) \div 2))
        \o PySlice(data, 12, Len(data))

\* The function up to `img = Image.open(...).convert("RGBA")`, for data
\* that is no PNG and holds a full header: the colour image, "none" when the
\* codec raised inside the try block, "raise" when struct.pack raised
\* before it.
ColourDecode(blob) ==
    LET data == blob.data
        header_size == U32(data, 0)
        patched_dib == PatchedDib(data)
        palette_size == BigMulInt(ColorsUsed(data), 4)
        pixel_offset == BigAdd(BigAdd(BigOf(14), header_size), palette_size)
    IN  IF ~FitsU32(BigOf(14 + Len(patched_dib))) \/ ~FitsU32(pixel_offset)
        THEN Raised
        ELSE BmpOpen(blob.codec, patched_dib)

icon_resource_to_image(blob) ==
    LET data == blob.data IN
    IF PySlice(data, 0, 8) = PNG_SIGNATURE THEN PngOpen(blob)
    ELSE IF Len(data) < 40 THEN NoImage
    ELSE LET img == ColourDecode(blob)
         IN  IF img.kind # "image" THEN img
             ELSE ApplyMask(data, img, U32(data, 0), I32(data, 4), U16(data, 14),
                            Abs(I32(data, 8)) \div 2,
                            BigMulInt(ColorsUsed(data), 4))

(***************************************************************************)
(* RT_ICON blobs the decoder is applied to.  A legacy blob is a 40-byte    *)
(* BITMAPINFOHEADER with the given fields followed by `body`.              *)
(***************************************************************************)
I32Bytes(v) == IF v < 0 THEN LE32(BigNorm(B16, v)) ELSE LE32(BigOf(v))

DibHeader(header_size, width, height, bit_count, colors_used) ==
    LE32(header_size) \o I32Bytes(width) \o I32Bytes(height) \o LE16(1)
        \o LE16(bit_count) \o [i \in 1..16 |-> 0] \o LE32(colors_used)
        \o [i \in 1..4 |-> 0]

BodyBytes(pattern, n) ==
    [i \in 1..n |-> IF pattern = "ones" THEN 255 ELSE (i * 37 + 129) % 256]

HeaderSizeChoices == {BigOf(0), BigOf(12), BigOf(40), U32Max}
WidthChoices == {-1, 0, 1, 9, 33}
HeightChoices == {0, 2, 3, 4, -4}
BitCountChoices == {1, 4, 8, 24, 32}
ColorsUsedChoices == {BigOf(0), BigOf(2), U32Max}
BodyLenChoices == {0, MaxBody - 8, MaxBody - 1, MaxBody}
CodecChoices == {"fail", "opaque", "alpha"}

DibBlobs ==
    { [data |-> DibHeader(hs, w, h, b, cu) \o BodyBytes(pat, n), codec |-> c] :
        hs \in HeaderSizeChoices, w \in WidthChoices, h \in HeightChoices,
        b \in BitCountChoices, cu \in ColorsUsedChoices, n \in BodyLenChoices,
        pat \in {"ones", "mixed"}, c \in CodecChoices }

PngBlob(w, h, c) ==
    [data |-> PNG_SIGNATURE \o <<0, 0, 0, 13, 73, 72, 68, 82>>
                  \o <<0, 0>> \o <<w \div 256, w % 256>>
                  \o <<0, 0>> \o <<h \div 256, h % 256>> \o <<8, 6, 0, 0, 0>>,
     codec |-> c]

ShortBlobs ==
    { [data |-> Take(DibHeader(BigOf(40), 1, 2, 24, BigOf(0)), n), codec |-> "opaque"] :
        n \in {0, 7, 39} }

IconBlobs ==
    DibBlobs \cup ShortBlobs \cup { PngBlob(2, 3, c) : c \in CodecChoices }

(***************************************************************************)
(* load_icons_from_pe                                                      *)
(*                                                                         *)
(* pe is the resource tree flattened to its leaves, in iteration order:    *)
(* each leaf is [type, id, name, blob], one per (type, id, language).      *)
(* Type 3 is RT_ICON, type 14 is RT_GROUP_ICON.  The file is one pefile    *)
(* could open and read.                                                    *)
(***************************************************************************)
RT_ICON == 3
RT_GROUP_ICON == 14

\* `raw = icon_data_by_id.get(e["icon_id"])` followed by `if raw:`: the id
\* is in the map and its bytes are not empty.
RawUsable(map, id) == id \in DOMAIN map /\ Len(map[id].data) > 0

\* `if img:`: a PIL image is truthy, None is not.
ImgUsableAlways(img) == TRUE
ImgUsable(img) == img.kind = "image"

\* The loop `for e in entries` from entry k on: the images list, or raised
\* when icon_resource_to_image let an exception out.
RECURSIVE AssembleImages(_, _, _, _)
AssembleImages(map, entries, k, images) ==
    IF k > Len(entries) THEN [raised |-> FALSE, images |-> images]
    ELSE IF ~RawUsable(map, entries[k].icon_id)
    THEN AssembleImages(map, entries, k + 1, images)
    ELSE LET img == icon_resource_to_image(map[entries[k].icon_id])
         IN  IF img.kind = "raise" THEN [raised |-> TRUE, images |-> images]
             ELSE IF ImgUsable(img)
             THEN AssembleImages(map, entries, k + 1,
                      Append(images, [entry |-> entries[k], image |-> img]))
             ELSE AssembleImages(map, entries, k + 1, images)

\* `groups.append({...})`
AppendGroupUnlessEmpty(gs, leaf, images) ==
    IF images = <<>> THEN gs
    ELSE Append(gs, [group_id |-> leaf.id, group_name |-> leaf.name, images |-> images])
AppendGroup(gs, leaf, images) ==
    Append(gs, [group_id |-> leaf.id, group_name |-> leaf.name, images |-> images])

NoGroup == [group_id |-> -1, group_name |-> "", images |-> <<>>]
NoEvent == [handler |-> "__init__", path |-> <<>>, card |-> 0, dialog |-> ""]

\* ICLViewer.__init__ without an initial path.
ViewIdle ==
    /\ view_groups = <<>>
    /\ cards = <<>>
    /\ selected_card = 0
    /\ file_label = [text |-> "No file loaded", count |-> 0]
    /\ window_title = "ICL Viewer"
    /\ detail_group = NoGroup
    /\ event = NoEvent

LoadIdle ==
    /\ pe = <<>>
    /\ load_pc = "idle"
    /\ res_i = 1
    /\ icon_data_by_id = [i \in {} |-> 0]
    /\ groups = <<>>

ParseIdle ==
    /\ grp_data = <<>>
    /\ parse_pc = "idle"
    /\ parse_out = [raised |-> FALSE, entries |-> <<>>]

DecodeIdle ==
    /\ ico_blob = [data |-> <<>>, codec |-> "fail"]
    /\ dec_pc = "idle"
    /\ dec_out = NoImage

\* The first pass with an id's first leaf kept instead of its last.
CollectStepKeepsFirst ==
    /\ load_pc = "collect"
    /\ res_i <= Len(pe)
    /\ icon_data_by_id' =
          IF pe[res_i].type = RT_ICON /\ pe[res_i].id \notin DOMAIN icon_data_by_id
          THEN [i \in DOMAIN icon_data_by_id \cup {pe[res_i].id} |->
                   IF i = pe[res_i].id THEN pe[res_i].blob ELSE icon_data_by_id[i]]
          ELSE icon_data_by_id
    /\ res_i' = res_i + 1
    /\ UNCHANGED <<pe, load_pc, groups, parseVars, decodeVars, viewVars>>

\* One iteration of the first pass: an RT_ICON leaf is stored under its id,
\* replacing what the id held; any other leaf is passed over.
CollectStep ==
    /\ load_pc = "collect"
    /\ res_i <= Len(pe)
    /\ icon_data_by_id' =
          IF pe[res_i].type = RT_ICON
          THEN [i \in DOMAIN icon_data_by_id \cup {pe[res_i].id} |->
                   IF i = pe[res_i].id THEN pe[res_i].blob ELSE icon_data_by_id[i]]
          ELSE icon_data_by_id
    /\ res_i' = res_i + 1
    /\ UNCHANGED <<pe, load_pc, groups, parseVars, decodeVars, viewVars>>

\* The first pass is over: `groups = []` and the second pass starts.
CollectDone ==
    /\ load_pc = "collect"
    /\ res_i > Len(pe)
    /\ load_pc' = "assemble"
    /\ res_i' = 1
    /\ groups' = <<>>
    /\ UNCHANGED <<pe, icon_data_by_id, parseVars, decodeVars, viewVars>>

\* One iteration of the second pass: an RT_GROUP_ICON leaf is parsed, its
\* entries are resolved and decoded, and the group is appended; an exception
\* from the decoder leaves the function.
AssembleStep ==
    /\ load_pc = "assemble"
    /\ res_i <= Len(pe)
    /\ IF pe[res_i].type # RT_GROUP_ICON
       THEN /\ res_i' = res_i + 1
            /\ UNCHANGED <<load_pc, groups>>
       ELSE LET parsed == parse_grp_icon_dir(pe[res_i].blob.data)
                built == AssembleImages(icon_data_by_id, parsed.entries, 1, <<>>)
            IN  IF parsed.raised \/ built.raised
                THEN /\ load_pc' = "raised"
                     /\ UNCHANGED <<res_i, groups>>
                ELSE /\ groups' = AppendGroup(groups, pe[res_i], built.images)
                     /\ res_i' = res_i + 1
                     /\ UNCHANGED load_pc
    /\ UNCHANGED <<pe, icon_data_by_id, parseVars, decodeVars, viewVars>>

\* `pe.close(); return groups`
Return ==
    /\ load_pc = "assemble"
    /\ res_i > Len(pe)
    /\ load_pc' = "done"
    /\ UNCHANGED <<pe, res_i, icon_data_by_id, groups, parseVars, decodeVars, viewVars>>

(***************************************************************************)
(* Files the loader is applied to.                                         *)
(***************************************************************************)
Leaf(type, id, name, data, codec) ==
    [type |-> type, id |-> id, name |-> name, blob |-> [data |-> data, codec |-> codec]]

\* a 2x2 and a 1x1 24-bit image, each with its AND mask
Dib2x2 == DibHeader(BigOf(40), 2, 4, 24, BigOf(0)) \o BodyBytes("mixed", 32)
Dib1x1 == DibHeader(BigOf(40), 1, 2, 24, BigOf(0)) \o BodyBytes("mixed", 8)
\* a header whose header_size field is 0xFFFFFFFF
DibHugeHeader == DibHeader(U32Max, 2, 4, 24, BigOf(0)) \o BodyBytes("mixed", 32)

ImageLeaves ==
    { Leaf(RT_ICON, 10, "", Dib2x2, "opaque"),
      Leaf(RT_ICON, 10, "", Dib1x1, "opaque"),
      Leaf(RT_ICON, 11, "", Dib2x2, "fail"),
      Leaf(RT_ICON, 11, "", PngBlob(2, 3, "alpha").data, "alpha"),
      Leaf(RT_ICON, 11, "", PngBlob(2, 3, "fail").data, "fail"),
      Leaf(RT_ICON, 11, "", DibHugeHeader, "opaque"),
      Leaf(RT_ICON, 12, "", <<>>, "fail") }

GroupLeafChoices ==
    { Leaf(RT_GROUP_ICON, 1, "", GrpHeader(2) \o GrpRecord(2, 2, 24, 10)
                                     \o GrpRecord(2, 3, 32, 11), "fail"),
      Leaf(RT_GROUP_ICON, 2, "APP", GrpHeader(2) \o GrpRecord(2, 2, 24, 12)
                                     \o GrpRecord(0, 0, 32, 13), "fail"),
      Leaf(RT_GROUP_ICON, 3, "", Take(GrpHeader(2) \o GrpRecord(2, 3, 32, 11)
                                     \o GrpRecord(2, 2, 24, 10), 25), "fail"),
      Leaf(RT_GROUP_ICON, 4, "", <<0, 0, 1>>, "fail") }

OtherLeaves == { Leaf(16, 1, "", <<1, 2, 3>>, "fail") }

LeafChoices == ImageLeaves \cup GroupLeafChoices \cup OtherLeaves

Files == UNION { [1..n -> LeafChoices] : n \in 0..MaxRes }

(***************************************************************************)
(* Specification of the loader: draw a file, run load_icons_from_pe.       *)
(***************************************************************************)
Init ==
    /\ pe \in Files
    /\ load_pc = "collect"
    /\ res_i = 1
    /\ icon_data_by_id = [i \in {} |-> 0]
    /\ groups = <<>>
    /\ ParseIdle
    /\ DecodeIdle
    /\ ViewIdle

Next ==
    \/ CollectStep
    \/ CollectDone
    \/ AssembleStep
    \/ Return

Spec == Init /\ [][Next]_vars

(***************************************************************************)
(* Specification of the parser: draw a buffer, call the parser.            *)
(***************************************************************************)
InitParse ==
    /\ grp_data \in GrpBuffers
    /\ parse_pc = "call"
    /\ parse_out = [raised |-> FALSE, entries |-> <<>>]
    /\ DecodeIdle
    /\ LoadIdle
    /\ ViewIdle

ParseCall ==
    /\ parse_pc = "call"
    /\ parse_out' = parse_grp_icon_dir(grp_data)
    /\ parse_pc' = "returned"
    /\ UNCHANGED <<grp_data, decodeVars, loadVars, viewVars>>

NextParse == ParseCall

SpecParse == InitParse /\ [][NextParse]_vars

(***************************************************************************)
(* Specification of the decoder: draw a blob, call the decoder.            *)
(***************************************************************************)
InitDecode ==
    /\ ico_blob \in IconBlobs
    /\ dec_pc = "call"
    /\ dec_out = NoImage
    /\ ParseIdle
    /\ LoadIdle
    /\ ViewIdle

DecodeCall ==
    /\ dec_pc = "call"
    /\ dec_out' = icon_resource_to_image(ico_blob)
    /\ dec_pc' = "returned"
    /\ UNCHANGED <<ico_blob, parseVars, loadVars, viewVars>>

NextDecode == DecodeCall

SpecDecode == InitDecode /\ [][NextDecode]_vars

(***************************************************************************)
(* load_icons_from_pe as one call, for its caller ICLViewer._open_file.    *)
(* A file is [readable, leaves]: pefile.PE(filepath) raises on a file it   *)
(* cannot read as a PE image, and otherwise yields the resource leaves.    *)
(***************************************************************************)
\* The first pass from leaf i on.
RECURSIVE CollectAll(_, _, _)
CollectAll(leaves, i, map) ==
    IF i > Len(leaves) THEN map
    ELSE CollectAll(leaves, i + 1,
             IF leaves[i].type = RT_ICON
             THEN [j \in DOMAIN map \cup {leaves[i].id} |->
                      IF j = leaves[i].id THEN leaves[i].blob ELSE map[j]]
             ELSE map)

\* The second pass from leaf i on.
RECURSIVE AssembleAll(_, _, _, _)
AssembleAll(leaves, i, map, gs) ==
    IF i > Len(leaves) THEN [raised |-> FALSE, groups |-> gs]
    ELSE IF leaves[i].type # RT_GROUP_ICON THEN AssembleAll(leaves, i + 1, map, gs)
    ELSE LET parsed == parse_grp_icon_dir(leaves[i].blob.data)
             built == AssembleImages(map, parsed.entries, 1, <<>>)
         IN  IF parsed.raised \/ built.raised
             THEN [raised |-> TRUE, groups |-> <<>>]
             ELSE AssembleAll(leaves, i + 1, map,
                              AppendGroup(gs, leaves[i], built.images))

load_icons_from_pe(file) ==
    IF ~file.readable THEN [raised |-> TRUE, groups |-> <<>>]
    ELSE AssembleAll(file.leaves, 1, CollectAll(file.leaves, 1, [j \in {} |-> 0]), <<>>)

(***************************************************************************)
(* ICLViewer                                                               *)
(***************************************************************************)
GRID_COLS == 5
BEST_DIFF_START == 99999

\* pil_to_qpixmap: the raster's size and RGBA bytes, as a QPixmap
pil_to_qpixmap(img) == [width |-> img.width, height |-> img.height, alpha |-> img.alpha]

\* The loop over group["images"] from item k on: the image whose entry
\* width is nearest 64, the first of them on a tie; NoImage stands for None.
RECURSIVE BestImage(_, _, _, _)
BestImage(images, k, best_img, best_diff) ==
    IF k > Len(images) THEN best_img
    ELSE IF Abs(images[k].entry.width - 64) < best_diff
    THEN BestImage(images, k + 1, images[k].image, Abs(images[k].entry.width - 64))
    ELSE BestImage(images, k + 1, best_img, best_diff)

\* The loop of _populate_grid from group i (0-based) on: one unselected card
\* per group that has an image, placed at row i // cols, column i % cols.
RECURSIVE PopulateCards(_, _, _)
PopulateCards(gs, i, cs) ==
    IF i >= Len(gs) THEN cs
    ELSE LET best_img == BestImage(gs[i + 1].images, 1, NoImage, BEST_DIFF_START)
         IN  IF best_img.kind # "image" THEN PopulateCards(gs, i + 1, cs)
             ELSE PopulateCards(gs, i + 1,
                      Append(cs, [group |-> gs[i + 1],
                                  pixmap |-> pil_to_qpixmap(best_img),
                                  row |-> i \div GRID_COLS,
                                  col |-> i % GRID_COLS,
                                  selected |-> FALSE]))

\* _on_card_click(card) applied to a card list: the card selected before
\* (0 for none) is unselected and card c is selected.
ClickCards(cs, before, c) ==
    [k \in 1..Len(cs) |->
        IF k = c THEN [cs[k] EXCEPT !.selected = TRUE]
        ELSE IF k = before THEN [cs[k] EXCEPT !.selected = FALSE]
        ELSE cs[k]]

\* Path(path).name
PathName(path) == path[Len(path)]

\* The early returns of _open_file: the load raised, or `not groups`.
OpenRejectedOnlyOnError(res) == res.raised
OpenRejected(res) == res.raised \/ res.groups = <<>>

(***************************************************************************)
(* The files the user can open, by path.                                   *)
(***************************************************************************)
ReadableFile(leaves) == [readable |-> TRUE, leaves |-> leaves]

GroupOf10 == Leaf(RT_GROUP_ICON, 5, "", GrpHeader(1) \o GrpRecord(2, 2, 24, 10), "fail")
GroupOf10And11 ==
    Leaf(RT_GROUP_ICON, 1, "", GrpHeader(2) \o GrpRecord(2, 2, 24, 10)
                                   \o GrpRecord(2, 3, 32, 11), "fail")
GroupOf12And13 ==
    Leaf(RT_GROUP_ICON, 2, "APP", GrpHeader(2) \o GrpRecord(2, 2, 24, 12)
                                   \o GrpRecord(0, 0, 32, 13), "fail")
Icon10 == Leaf(RT_ICON, 10, "", Dib2x2, "opaque")
Icon11Png == Leaf(RT_ICON, 11, "", PngBlob(2, 3, "alpha").data, "alpha")
Icon11BadPng == Leaf(RT_ICON, 11, "", PngBlob(2, 3, "fail").data, "fail")

Paths ==
    { <<"lib", "one.icl">>, <<"lib", "two.icl">>, <<"lib", "three.icl">>,
      <<"lib", "hollow.icl">>, <<"lib", "mixed.dll">>, <<"tmp", "one.icl">>,
      <<"tmp", "plain.exe">>, <<"tmp", "notes.txt">>, <<"tmp", "broken.icl">>,
      <<"lib", "four.icl">>, <<"tmp", "apps.dll">>, <<"tmp", "pair.icl">>,
      <<"lib", "six.icl">> }

Disk(path) ==
    CASE path = <<"lib", "one.icl">> -> ReadableFile(<<Icon10, GroupOf10>>)
      [] path = <<"lib", "two.icl">> ->
            ReadableFile(<<GroupOf10And11, Icon10, Icon11Png, GroupOf10>>)
      [] path = <<"lib", "three.icl">> ->
            ReadableFile(<<Icon10, Icon11Png, GroupOf10, GroupOf10And11, GroupOf10>>)
      [] path = <<"lib", "hollow.icl">> -> ReadableFile(<<GroupOf12And13>>)
      [] path = <<"lib", "mixed.dll">> ->
            ReadableFile(<<GroupOf12And13, Icon10, GroupOf10And11>>)
      [] path = <<"tmp", "one.icl">> -> ReadableFile(<<Icon11Png, GroupOf10And11>>)
      [] path = <<"tmp", "plain.exe">> -> ReadableFile(<<Icon10, Leaf(16, 1, "", <<1, 2, 3>>, "fail")>>)
      [] path = <<"tmp", "notes.txt">> -> [readable |-> FALSE, leaves |-> <<>>]
      [] path = <<"tmp", "broken.icl">> ->
            ReadableFile(<<Icon10, Icon11BadPng, GroupOf10And11>>)
      [] path = <<"lib", "four.icl">> ->
            ReadableFile(<<GroupOf10, GroupOf10And11, GroupOf12And13, GroupOf10,
                           GroupOf10And11, Icon10, Icon11Png>>)
      [] path = <<"tmp", "apps.dll">> ->
            ReadableFile(<<GroupOf12And13, GroupOf10And11, Icon11Png, GroupOf12And13>>)
      [] path = <<"tmp", "pair.icl">> -> ReadableFile(<<Icon10, GroupOf10, GroupOf10>>)
      [] path = <<"lib", "six.icl">> ->
            ReadableFile(<<Icon11Png, GroupOf10And11, GroupOf10And11, GroupOf12And13,
                           GroupOf10And11, GroupOf10And11, Icon10, GroupOf10And11,
                           GroupOf10>>)

(***************************************************************************)
(* The viewer's handlers.                                                  *)
(***************************************************************************)
\* _open_file(path), _populate_grid and the click on the first card
\* included.
OpenFile ==
    /\ \E path \in Paths :
        LET res == load_icons_from_pe(Disk(path))
            fresh == PopulateCards(res.groups, 0, <<>>)
        IN  IF OpenRejected(res)
            THEN /\ event' = [handler |-> "_open_file", path |-> path, card |-> 0,
                              dialog |-> IF res.raised THEN "Error" ELSE "Empty"]
                 /\ UNCHANGED <<view_groups, cards, selected_card, file_label,
                                window_title, detail_group>>
            ELSE /\ view_groups' = res.groups
                 /\ file_label' = [text |-> PathName(path), count |-> Len(res.groups)]
                 /\ window_title' = PathName(path)
                 /\ cards' = IF fresh # <<>> THEN ClickCards(fresh, 0, 1) ELSE fresh
                 /\ selected_card' = IF fresh # <<>> THEN 1 ELSE 0
                 /\ detail_group' = IF fresh # <<>> THEN fresh[1].group ELSE detail_group
                 /\ event' = [handler |-> "_open_file", path |-> path, card |-> 0,
                              dialog |-> ""]
    /\ UNCHANGED <<parseVars, decodeVars, loadVars>>

\* A mouse press on card c: _on_card_click(card).
CardClick ==
    \E c \in 1..Len(cards) :
        /\ cards' = ClickCards(cards, selected_card, c)
        /\ selected_card' = c
        /\ detail_group' = cards[c].group
        /\ event' = [handler |-> "_on_card_click", path |-> <<>>, card |-> c,
                     dialog |-> ""]
        /\ UNCHANGED <<view_groups, file_label, window_title>>
        /\ UNCHANGED <<parseVars, decodeVars, loadVars>>

(***************************************************************************)
(* Specification of the viewer: construct it, then open files and click    *)
(* cards in any order.                                                     *)
(***************************************************************************)
InitView ==
    /\ ViewIdle
    /\ ParseIdle
    /\ DecodeIdle
    /\ LoadIdle

NextView ==
    \/ OpenFile
    \/ CardClick

SpecView == InitView /\ [][NextView]_vars

(***************************************************************************)
(* Properties of parse_grp_icon_dir (under SpecParse).                     *)
(***************************************************************************)
\* Offset of the i-th (1-based) 14-byte record of a group directory.
RecordOffset(i) == GRP_HEADER_SIZE + GRP_ENTRY_SIZE * (i - 1)

\* C1: parse_grp_icon_dir never raises, and the number of entries it returns
\* is 0 for len < 6, floor((len-6)/14) for 6 <= len < 6 + 14*count, and count
\* for len >= 6 + 14*count; the entries are the first records of the
\* directory, in directory order.
C1_EntryCount ==
    parse_pc = "returned" =>
        LET len == Len(grp_data)
            n == Len(parse_out.entries)
        IN  /\ ~parse_out.raised
            /\ len < 6 => n = 0
            /\ len >= 6 =>
                  /\ len < 6 + 14 * U16(grp_data, 4) => n = (len - 6) \div 14
                  /\ len >= 6 + 14 * U16(grp_data, 4) => n = U16(grp_data, 4)
                  /\ \A i \in 1..n :
                        parse_out.entries[i].icon_id
                            = U16(grp_data, RecordOffset(i) + 12)

\* A truncated directory: fewer complete records than declared, at least one
\* of them returned, and a partial record left over at the end.
C1_Witness ==
    /\ parse_pc = "returned"
    /\ Len(grp_data) >= 6
    /\ Len(grp_data) < 6 + 14 * U16(grp_data, 4)
    /\ (Len(grp_data) - 6) % 14 # 0
    /\ Len(parse_out.entries) >= 1

\* C2: in every returned entry a width (height) byte of 0 gives dimension
\* 256 and a nonzero byte b gives b, so every dimension lies in 1..256.
C2_Dimensions ==
    parse_pc = "returned" =>
        \A i \in 1..Len(parse_out.entries) :
            LET e == parse_out.entries[i]
                wb == grp_data[RecordOffset(i) + 1]
                hb == grp_data[RecordOffset(i) + 2]
            IN  /\ wb = 0 => e.width = 256
                /\ wb # 0 => e.width = wb
                /\ hb = 0 => e.height = 256
                /\ hb # 0 => e.height = hb
                /\ e.width \in 1..256
                /\ e.height \in 1..256

\* An entry with a zero width byte next to one with the largest nonzero byte.
C2_Witness ==
    /\ parse_pc = "returned"
    /\ \E i, j \in 1..Len(parse_out.entries) :
          /\ grp_data[RecordOffset(i) + 1] = 0
          /\ parse_out.entries[i].width = 256
          /\ grp_data[RecordOffset(j) + 1] = 255
          /\ parse_out.entries[j].width = 255
          /\ parse_out.entries[j].height = 1

(***************************************************************************)
(* Properties of icon_resource_to_image (under SpecDecode).                *)
(***************************************************************************)
IsLegacy(data) == PySlice(data, 0, 8) # PNG_SIGNATURE /\ Len(data) >= 40

\* ceil(a / 32) * 4 for a >= 0
Stride(a) == (IF a % 32 = 0 THEN a \div 32 ELSE a \div 32 + 1) * 4
TrueHeight(data) == Abs(I32(data, 8)) \div 2
\* header_size + palette bytes + XOR section size
MaskStart(data) ==
    BigAdd(BigAdd(U32(data, 0), BigMulInt(ColorsUsed(data), 4)),
           BigOf(Stride(I32(data, 4) * U16(data, 14)) * TrueHeight(data)))
MaskEnd(data) ==
    BigAdd(MaskStart(data), BigOf(Stride(I32(data, 4)) * TrueHeight(data)))
HasFullMask(data) == BigLe(MaskEnd(data), BigOf(Len(data)))

\* C6 (as claimed): for data that does not start with the PNG signature,
\* icon_resource_to_image returns an image or None and never raises,
\* whatever the header fields hold.
C6_NeverRaises ==
    (dec_pc = "returned" /\ PySlice(ico_blob.data, 0, 8) # PNG_SIGNATURE)
        => dec_out.kind # "raise"

\* C7: for a decoded legacy image of bit depth below 32 whose buffer holds
\* the full mask section, alpha(x, y) is 0 exactly when bit 7 - x mod 8 of
\* byte x div 8 of mask row true_height - 1 - y is 1, and 255 otherwise,
\* whatever alpha the colour decode produced.
C7_MaskAlpha ==
    (/\ dec_pc = "returned"
     /\ IsLegacy(ico_blob.data)
     /\ dec_out.kind = "image"
     /\ U16(ico_blob.data, 14) < 32
     /\ I32(ico_blob.data, 4) >= 0
     /\ HasFullMask(ico_blob.data))
        => LET d == ico_blob.data
               w == I32(d, 4)
               h == TrueHeight(d)
               start == BigToInt(MaskStart(d))
           IN  /\ dec_out.width = w
               /\ dec_out.height = h
               /\ \A x \in 0..(w - 1), y \in 0..(h - 1) :
                    LET byte == d[start + (h - 1 - y) * Stride(w) + (x \div 8) + 1]
                        bit == (byte \div (2 ^ (7 - (x % 8)))) % 2
                    IN  dec_out.alpha[<<x, y>>] = IF bit = 1 THEN 0 ELSE 255

\* A two-row image more than eight pixels wide, decoded with per-pixel
\* colour alpha, whose mask makes some pixels transparent and some opaque.
C7_Witness ==
    /\ dec_pc = "returned"
    /\ IsLegacy(ico_blob.data)
    /\ dec_out.kind = "image"
    /\ ico_blob.codec = "alpha"
    /\ U16(ico_blob.data, 14) < 32
    /\ HasFullMask(ico_blob.data)
    /\ dec_out.width > 8
    /\ dec_out.height = 2
    /\ \E p, q \in DOMAIN dec_out.alpha :
          /\ dec_out.alpha[p] = 0
          /\ dec_out.alpha[q] = 255
          /\ p[2] # q[2]

\* C8: for a decoded legacy image of bit depth 32 the alpha channel is the
\* one the colour decode produced, whatever mask bytes the buffer holds.
C8_Depth32Unmasked ==
    (/\ dec_pc = "returned"
     /\ IsLegacy(ico_blob.data)
     /\ dec_out.kind = "image"
     /\ U16(ico_blob.data, 14) = 32)
        => \A p \in DOMAIN dec_out.alpha :
              dec_out.alpha[p] = ColourAlpha(ico_blob.codec, p[1], p[2])

\* A depth-32 image whose buffer does hold a full mask section with set
\* bits, returned with the colour decode's partial alpha.
C8_Witness ==
    /\ dec_pc = "returned"
    /\ IsLegacy(ico_blob.data)
    /\ dec_out.kind = "image"
    /\ U16(ico_blob.data, 14) = 32
    /\ ico_blob.codec = "alpha"
    /\ dec_out.width >= 1
    /\ dec_out.height >= 1
    /\ HasFullMask(ico_blob.data)
    /\ ico_blob.data[BigToInt(MaskStart(ico_blob.data)) + 1] = 255
    /\ dec_out.alpha[<<0, 0>>] = 77

\* C10: for a legacy image of bit depth below 32 that the codec decodes and
\* whose buffer is too short to hold the full mask section, the function
\* returns the image, with the alpha of the colour decode: no pixel is made
\* transparent by the mask step.
C10_ShortMaskSkipped ==
    (/\ dec_pc = "returned"
     /\ IsLegacy(ico_blob.data)
     /\ ColourDecode(ico_blob).kind = "image"
     /\ U16(ico_blob.data, 14) < 32
     /\ ~HasFullMask(ico_blob.data))
        => /\ dec_out.kind = "image"
           /\ \A p \in DOMAIN dec_out.alpha :
                 dec_out.alpha[p] = ColourAlpha(ico_blob.codec, p[1], p[2])

\* A buffer one byte short of its mask section, all of whose present mask
\* bits are set, decoded to an image that is opaque everywhere.
C10_Witness ==
    /\ dec_pc = "returned"
    /\ IsLegacy(ico_blob.data)
    /\ U16(ico_blob.data, 14) < 32
    /\ ico_blob.codec = "opaque"
    /\ ~HasFullMask(ico_blob.data)
    /\ BigLe(MaskEnd(ico_blob.data), BigOf(Len(ico_blob.data) + 1))
    /\ ico_blob.data[Len(ico_blob.data)] = 255
    /\ dec_out.kind = "image"
    /\ dec_out.width > 8
    /\ dec_out.height = 2
    /\ \A p \in DOMAIN dec_out.alpha : dec_out.alpha[p] = 255

(***************************************************************************)
(* Properties of load_icons_from_pe (under Spec).                          *)
(***************************************************************************)
\* The RT_GROUP_ICON leaves of the file, in tree order.
IsGroupLeaf(leaf) == leaf.type = RT_GROUP_ICON
GroupLeaves == SelectSeq(pe, IsGroupLeaf)

\* The variants an entry list should give: one per entry whose id is in the
\* image map and whose blob decodes to an image, in directory order.
RECURSIVE ExpectedVariants(_)
ExpectedVariants(entries) ==
    IF entries = <<>> THEN <<>>
    ELSE LET e == Head(entries)
             present == e.icon_id \in DOMAIN icon_data_by_id
         IN  IF present /\ icon_resource_to_image(icon_data_by_id[e.icon_id]).kind = "image"
             THEN <<[entry |-> e,
                     image |-> icon_resource_to_image(icon_data_by_id[e.icon_id])]>>
                      \o ExpectedVariants(Tail(entries))
             ELSE ExpectedVariants(Tail(entries))

\* C3: the image list of every assembled group is exactly the subsequence of
\* its parsed directory entries whose icon_id is in the image map and whose
\* blob decodes, in directory order, with no element for any other entry.
C3_VariantsAreDecodedEntries ==
    \A k \in 1..Len(groups) :
        /\ k <= Len(GroupLeaves)
        /\ groups[k].images
              = ExpectedVariants(parse_grp_icon_dir(GroupLeaves[k].blob.data).entries)

\* A returned group of two directory entries of which exactly one, the
\* first, became a variant: the other's blob was in the map but no image.
C3_Witness ==
    /\ load_pc = "done"
    /\ \E k \in 1..Len(groups) :
          /\ Len(parse_grp_icon_dir(GroupLeaves[k].blob.data).entries) = 2
          /\ Len(groups[k].images) = 1
          /\ groups[k].images[1].entry.icon_id = 10
          /\ 11 \in DOMAIN icon_data_by_id

\* C4: the returned collection holds one group per group resource, in
\* encounter order, groups with no variant included.
C4_OneGroupPerResource ==
    /\ Len(groups) <= Len(GroupLeaves)
    /\ \A k \in 1..Len(groups) : groups[k].group_id = GroupLeaves[k].id
    /\ load_pc = "done" => Len(groups) = Len(GroupLeaves)

\* A returned collection of two groups, the first without any variant.
C4_Witness ==
    /\ load_pc = "done"
    /\ Len(groups) = 2
    /\ groups[1].images = <<>>
    /\ groups[2].images # <<>>

\* C5 (as claimed): a corrupt or unsupported image blob, on the legacy path
\* or on the PNG path, only omits its entry; it never aborts the assembly.
C5_NeverAborted == load_pc # "raised"

\* C9 (as claimed): every variant whose image came from the legacy path has
\* a raster of the width and height its directory entry declares.
C9_LegacyDimensionsMatchEntry ==
    \A k \in 1..Len(groups) :
        \A v \in 1..Len(groups[k].images) :
            LET item == groups[k].images[v]
            IN  PySlice(icon_data_by_id[item.entry.icon_id].data, 0, 8) # PNG_SIGNATURE
                    => /\ item.image.width = item.entry.width
                       /\ item.image.height = item.entry.height

\* The positions in the tree of the RT_ICON leaves with the given id.
ImageLeafPositions(id) ==
    { i \in 1..Len(pe) : pe[i].type = RT_ICON /\ pe[i].id = id }
\* The bytes of the last-iterated of them.
LastImageBlob(id) ==
    pe[CHOOSE i \in ImageLeafPositions(id) :
           \A j \in ImageLeafPositions(id) : j <= i].blob

\* C11: every variant of every group is decoded from the last-iterated
\* RT_ICON leaf with its entry's id, and an entry whose id has such a leaf
\* anywhere in the tree, before or after the group's own leaf, and whose
\* last leaf decodes, has its variant in the group.
C11_LastVariantAnyOrder ==
    \A k \in 1..Len(groups) :
        /\ \A v \in 1..Len(groups[k].images) :
              LET item == groups[k].images[v]
              IN  /\ ImageLeafPositions(item.entry.icon_id) # {}
                  /\ item.image
                        = icon_resource_to_image(LastImageBlob(item.entry.icon_id))
        /\ LET entries == parse_grp_icon_dir(GroupLeaves[k].blob.data).entries
           IN  \A n \in 1..Len(entries) :
                  (/\ ImageLeafPositions(entries[n].icon_id) # {}
                   /\ icon_resource_to_image(LastImageBlob(entries[n].icon_id)).kind
                         = "image")
                      => \E v \in 1..Len(groups[k].images) :
                            groups[k].images[v].entry = entries[n]

\* A returned file whose tree holds a 2x2 image under id 10, then a group
\* naming id 10, then a 1x1 image under id 10 again: the group's variant is
\* the 1x1 image, which comes last and after the group.
C11_Witness ==
    /\ load_pc = "done"
    /\ Len(pe) = 3
    /\ pe[1].type = RT_ICON /\ pe[1].id = 10
    /\ pe[2].type = RT_GROUP_ICON
    /\ pe[3].type = RT_ICON /\ pe[3].id = 10
    /\ icon_resource_to_image(pe[1].blob).width = 2
    /\ Len(groups) = 1
    /\ Len(groups[1].images) = 1
    /\ groups[1].images[1].entry.icon_id = 10
    /\ groups[1].images[1].image.width = 1

(***************************************************************************)
(* Properties of ICLViewer (under SpecView).                               *)
(***************************************************************************)
\* The call form of load_icons_from_pe returns what the two stepped passes
\* build (under Spec).
LoadCallAgreesWithPasses ==
    /\ load_pc = "done" =>
          load_icons_from_pe([readable |-> TRUE, leaves |-> pe])
              = [raised |-> FALSE, groups |-> groups]
    /\ load_pc = "raised" =>
          load_icons_from_pe([readable |-> TRUE, leaves |-> pe]).raised

\* C12: an _open_file whose load raises or returns no group leaves the
\* loaded groups, the card grid, the selected card and the file label as
\* they were; an _open_file changes them only when its load returns at least
\* one group.
C12_RejectedOpenKeepsView ==
    [][ (/\ event'.handler = "_open_file"
         /\ \/ load_icons_from_pe(Disk(event'.path)).raised
            \/ load_icons_from_pe(Disk(event'.path)).groups = <<>>)
            => UNCHANGED <<view_groups, cards, selected_card, file_label>> ]_vars

\* A file was loaded, the second card was clicked, and then an open whose
\* decode raised was answered with the error box, the view still in place.
C12_Witness ==
    /\ event.handler = "_open_file"
    /\ event.dialog = "Error"
    /\ Disk(event.path).readable
    /\ load_icons_from_pe(Disk(event.path)).raised
    /\ Len(view_groups) >= 2
    /\ Len(cards) >= 2
    /\ selected_card = 2
    /\ cards[2].selected
    /\ file_label.count = Len(view_groups)

====
